---- MODULE Spec2Model ----
(***************************************************************************)
(* Request-time data pipeline of eskom-calendar-api (src/versions.rs,      *)
(* src/structs.rs): one request is served by fetching an upstream CSV,     *)
(* decoding it and deriving a view from it.                                *)
(*                                                                         *)
(* Text is a sequence of character codes: 32 space, 40 and 41 the round   *)
(* brackets, 42 star, 45 hyphen, 46 dot, 65 A, 66 B, 97 a, 98 b; so string *)
(* equality, byte-wise ordering, regex matching and normalisation are      *)
(* computed and not assumed.                                               *)
(***************************************************************************)
EXTENDS Integers, Sequences, FiniteSets, TLC

\* Bounds of the explored inputs.
MaxFeed == 3
MaxTasks == 2
MaxQuery == 2
MaxRows == 2

\* The sequences over S of length n, of length at most n, and of length 1
\* to n.
RECURSIVE SeqsOfLen(_, _)
SeqsOfLen(S, n) ==
    IF n = 0 THEN {<<>>}
    ELSE {Append(s, x) : s \in SeqsOfLen(S, n - 1), x \in S}

SeqsUpTo(S, n) == UNION {SeqsOfLen(S, k) : k \in 0..n}

NonEmptySeqsUpTo(S, n) == UNION {SeqsOfLen(S, k) : k \in 1..n}

\* Area names appearing in the upstream feed: "ab", "a-b", "A-b".
AreaNames == {<<97, 98>>, <<97, 45, 98>>, <<65, 45, 98>>}

\* Names a client may ask for: the ones above and "a", which no feed has.
RequestNames == AreaNames \cup {<<97>>}

\* Raw rows of machine_friendly.csv.  The stage column is the text of a
\* number; 300 does not fit the u8 field of PowerOutage.  The columns
\* start, finsh and source are carried through every handler unchanged
\* and are not represented.
FeedRow(area_name, stage) == [area_name |-> area_name, stage |-> stage]

FeedRows ==
    {FeedRow(<<97, 98>>, 2), FeedRow(<<97, 45, 98>>, 2), FeedRow(<<97, 45, 98>>, 4),
     FeedRow(<<65, 45, 98>>, 4), FeedRow(<<97, 98>>, 300)}

Feeds == SeqsUpTo(FeedRows, MaxFeed)

\* What a GET produced: whether the transport gave a response, its status,
\* whether its text could be read, and the text as CSV: the header line and
\* the records under it.
Fetched(transport, status, text, headers, body) ==
    [transport |-> transport, status |-> status, text |-> text,
     headers |-> headers, body |-> body]

\* The header line of machine_friendly.csv.
FeedHeaders == <<"area_name", "start", "finsh", "stage", "source">>

\* The header line of an error page: one line, no records under it.
ErrorPage == <<"404: Not Found">>

\* What one GET of machine_friendly.csv can produce: a transport failure, a
\* body that cannot be read, a non-success status with an error page (one
\* line of text, hence a CSV without records), or the feed.
FeedNets ==
    {Fetched("fail", 0, "fail", <<>>, <<>>),
     Fetched("ok", 200, "fail", <<>>, <<>>),
     Fetched("ok", 404, "ok", ErrorPage, <<>>)}
    \cup {Fetched("ok", 200, "ok", FeedHeaders, f) : f \in Feeds}

\* Result<T, String> of a handler, and the unwinding of a panic.
\* The field decoded counts the CSV records the request pulled from its
\* reader, the field fetches the calls of reqwest::get the request made.
Ok(v) == [kind |-> "ok", val |-> v, msg |-> <<>>,
  decoded |-> 0, fetches |-> 0]

Err(m) == [kind |-> "err", val |-> <<>>, msg |-> m,
  decoded |-> 0, fetches |-> 0]

Panic(m) == [kind |-> "panic", val |-> <<>>, msg |-> m,
  decoded |-> 0, fetches |-> 0]

NoResp == [kind |-> "none", val |-> <<>>, msg |-> <<>>,
  decoded |-> 0, fetches |-> 0]

\* Json<T>(v), the body of a successful response; the field names the type T
\* that the route returns.
JsonVecPowerOutage(v) == [power_outages |-> v]

JsonVecString(v) == [areas |-> v]

JsonVecSearchResult(v) == [results |-> v]

JsonRecurringSchedule(v) == [schedule |-> v]

\* The result r of a handler that pulled its records through src.
Counted(src, r) ==
    [r EXCEPT !.decoded = src.decoded, !.fetches = src.fetches]

\* The result r of code that awaited one call of reqwest::get.
Fetching(r) == [r EXCEPT !.fetches = @ + 1]

\* The panic of Result::unwrap on an Err; its message shows the error.
UnwrapPanic(error) == Panic(<<"called Result::unwrap() on an Err value", error>>)

Min(S) == CHOOSE x \in S : \A y \in S : x <= y

IsU8(x) == x \in 0..255

\* reader.deserialize().map(conv).collect(): the records are converted in
\* order and the first one whose conversion panics ends the request.
collect(rows, conv(_)) ==
    LET bad == {i \in 1..Len(rows) : conv(rows[i]).kind # "ok"}
    IN  IF bad = {}
        THEN [Ok([i \in 1..Len(rows) |-> conv(rows[i]).val])
                 EXCEPT !.decoded = Len(rows)]
        ELSE [conv(rows[Min(bad)]) EXCEPT !.decoded = Min(bad)]

\* serde decoding of one CSV record into PowerOutage, unwrapped: stage is a
\* u8.
PowerOutage(raw) ==
    IF IsU8(raw.stage)
    THEN Ok([area_name |-> raw.area_name, stage |-> raw.stage])
    ELSE UnwrapPanic("csv::Error")

\* Variant: a GET that fails in transport is attempted a second time.
get_machine_friendly_retrying(n) ==
    IF n.transport # "ok"
    THEN Fetching(Fetching(
             Err(<<"Failed to get machine_friendly.csv that defines the outages">>)))
    ELSE Fetching(
             IF n.text # "ok"
             THEN Err(<<"Failed to get text of machine_friendly.csv">>)
             ELSE collect(n.body, PowerOutage))

\* get_machine_friendly: the status of the response is not looked at; every
\* record is decoded and unwrapped.
get_machine_friendly(n) ==
    Fetching(
        IF n.transport # "ok"
        THEN Err(<<"Failed to get machine_friendly.csv that defines the outages">>)
        ELSE IF n.text # "ok"
        THEN Err(<<"Failed to get text of machine_friendly.csv">>)
        ELSE collect(n.body, PowerOutage))

\* ---- regex crate, for the syntax made of literals, dot, star and round
\* brackets: Regex::new (a parser) and Regex::is_match (an unanchored
\* search) ----

ReNode(t, c, xs) == [t |-> t, c |-> c, xs |-> xs]

ReFail == [ok |-> FALSE, xs |-> <<>>, next |-> 0]

\* Parses a concatenation from position i up to the end or a closing bracket.
RECURSIVE ParseConcat(_, _, _)
ParseConcat(p, i, acc) ==
    IF i > Len(p) \/ p[i] = 41
    THEN [ok |-> TRUE, xs |-> acc, next |-> i]
    ELSE IF p[i] = 42
    THEN IF acc = <<>>
         THEN ReFail
         ELSE ParseConcat(p, i + 1,
                  [acc EXCEPT ![Len(acc)] = ReNode("star", 0, <<@>>)])
    ELSE IF p[i] = 40
    THEN LET inner == ParseConcat(p, i + 1, <<>>)
         IN  IF inner.ok /\ inner.next <= Len(p)
             THEN ParseConcat(p, inner.next + 1,
                      Append(acc, ReNode("cat", 0, inner.xs)))
             ELSE ReFail
    ELSE IF p[i] = 46
    THEN ParseConcat(p, i + 1, Append(acc, ReNode("any", 0, <<>>)))
    ELSE ParseConcat(p, i + 1, Append(acc, ReNode("lit", p[i], <<>>)))

\* Regex::new: a star with nothing before it, an unclosed bracket and an
\* unopened bracket are syntax errors.
RegexNew(p) ==
    LET r == ParseConcat(p, 1, <<>>)
    IN  IF r.ok /\ r.next = Len(p) + 1
        THEN [ok |-> TRUE, ast |-> ReNode("cat", 0, r.xs)]
        ELSE [ok |-> FALSE, ast |-> ReNode("cat", 0, <<>>)]

\* The positions (0..Len(s)) at which a match of node can end when it starts
\* at one of the positions of from.
RECURSIVE Ends(_, _, _)
RECURSIVE EndsCat(_, _, _, _)
RECURSIVE EndsStar(_, _, _, _)
Ends(node, s, from) ==
    CASE node.t = "lit" ->
            {j + 1 : j \in {k \in from : k < Len(s) /\ s[k + 1] = node.c}}
      [] node.t = "any" ->
            {j + 1 : j \in {k \in from : k < Len(s) /\ s[k + 1] # 10}}
      [] node.t = "cat" -> EndsCat(node.xs, 1, s, from)
      [] node.t = "star" -> EndsStar(node.xs[1], s, from, Len(s) + 1)

EndsCat(xs, k, s, from) ==
    IF k > Len(xs) THEN from ELSE EndsCat(xs, k + 1, s, Ends(xs[k], s, from))

EndsStar(x, s, from, fuel) ==
    LET more == from \cup Ends(x, s, from)
    IN  IF more = from \/ fuel = 0 THEN more ELSE EndsStar(x, s, more, fuel - 1)

is_match(re, s) == Ends(re.ast, s, 0..Len(s)) # {}

\* ---- std: String ordering, Vec::sort, HashSet iteration ----

\* Ord of String: byte-wise lexicographic.
RECURSIVE StrLess(_, _)
StrLess(a, b) ==
    IF a = <<>> THEN b # <<>>
    ELSE IF b = <<>> THEN FALSE
    ELSE IF Head(a) # Head(b) THEN Head(a) < Head(b)
    ELSE StrLess(Tail(a), Tail(b))

RECURSIVE InsertStr(_, _)
InsertStr(sorted, x) ==
    IF sorted = <<>> THEN <<x>>
    ELSE IF StrLess(x, Head(sorted)) THEN <<x>> \o sorted
    ELSE <<Head(sorted)>> \o InsertStr(Tail(sorted), x)

\* Variant: the vector is left in the order the set yielded it.
sort_omitted(v) == v

\* uniq_areas.sort()
RECURSIVE sort(_)
sort(v) ==
    IF v = <<>> THEN <<>>
    ELSE InsertStr(sort(SubSeq(v, 1, Len(v) - 1)), v[Len(v)])

\* A HashSet is built with fresh random hasher keys, so the order in which
\* into_iter yields its elements is not fixed by its contents.  A seed is an
\* arrangement of the names of the fetched body; a set is iterated in the
\* order of the seed.
Arrangements(S) ==
    {s \in [1..Cardinality(S) -> S] : \A i, j \in DOMAIN s : s[i] = s[j] => i = j}

Seeds(n) == Arrangements({n.body[i].area_name : i \in 1..Len(n.body)})

HashSetIter(S, seed) == SelectSeq(seed, LAMBDA x : x \in S)

\* ---- handlers of mod v0_0_1 ----

\* Variant: area names are compared without regard to case.
outages_ignoring_case(area_name, n) ==
    LET machine_friendly == get_machine_friendly(n)
        lower(c) == IF c \in 65..90 THEN c + 32 ELSE c
        same(a, b) ==
            /\ Len(a) = Len(b)
            /\ \A i \in 1..Len(a) : lower(a[i]) = lower(b[i])
    IN  IF machine_friendly.kind # "ok"
        THEN machine_friendly
        ELSE LET outs == SelectSeq(machine_friendly.val,
                             LAMBDA outage : same(outage.area_name, area_name))
             IN  IF outs = <<>>
                 THEN Counted(machine_friendly,
                              Err(<<"No areas found that match", area_name>>))
                 ELSE Counted(machine_friendly, Ok(JsonVecPowerOutage(outs)))

\* Variant: an empty selection is returned as a success.
outages_empty_ok(area_name, n) ==
    LET machine_friendly == get_machine_friendly(n)
    IN  IF machine_friendly.kind # "ok"
        THEN machine_friendly
        ELSE Counted(machine_friendly,
                     Ok(JsonVecPowerOutage(
                            SelectSeq(machine_friendly.val,
                                      LAMBDA outage : outage.area_name = area_name))))

outages(area_name, n) ==
    LET machine_friendly == get_machine_friendly(n)
    IN  IF machine_friendly.kind # "ok"
        THEN machine_friendly
        ELSE LET outs == SelectSeq(machine_friendly.val,
                                   LAMBDA outage : outage.area_name = area_name)
             IN  IF outs = <<>>
                 THEN Counted(machine_friendly,
                              Err(<<"No areas found that match", area_name>>))
                 ELSE Counted(machine_friendly, Ok(JsonVecPowerOutage(outs)))

\* Variant: an empty selection is an error, as it is for outages.
list_areas_empty_err(regex, n, seed) ==
    LET machine_friendly == get_machine_friendly(n)
        re == RegexNew(regex)
    IN  IF machine_friendly.kind # "ok"
        THEN machine_friendly
        ELSE IF ~re.ok
        THEN Counted(machine_friendly, Err(<<"Error parsing as regex", regex>>))
        ELSE LET rows == machine_friendly.val
                 uniq_areas ==
                     {rows[i].area_name :
                         i \in {j \in 1..Len(rows) : is_match(re, rows[j].area_name)}}
             IN  IF uniq_areas = {}
                 THEN Counted(machine_friendly,
                              Err(<<"No areas found that match", regex>>))
                 ELSE Counted(machine_friendly,
                              Ok(JsonVecString(sort(HashSetIter(uniq_areas, seed)))))

\* Variant: a pattern that does not compile selects nothing.
list_areas_lenient(regex, n, seed) ==
    LET machine_friendly == get_machine_friendly(n)
        re == RegexNew(regex)
    IN  IF machine_friendly.kind # "ok"
        THEN machine_friendly
        ELSE LET rows == machine_friendly.val
                 uniq_areas ==
                     {rows[i].area_name :
                         i \in {j \in 1..Len(rows) :
                                   re.ok /\ is_match(re, rows[j].area_name)}}
             IN  Counted(machine_friendly,
                         Ok(JsonVecString(sort(HashSetIter(uniq_areas, seed)))))

list_areas(regex, n, seed) ==
    LET machine_friendly == get_machine_friendly(n)
        re == RegexNew(regex)
    IN  IF machine_friendly.kind # "ok"
        THEN machine_friendly
        ELSE IF ~re.ok
        THEN Counted(machine_friendly, Err(<<"Error parsing as regex", regex>>))
        ELSE LET rows == machine_friendly.val
                 uniq_areas ==
                     {rows[i].area_name :
                         i \in {j \in 1..Len(rows) : is_match(re, rows[j].area_name)}}
             IN  Counted(machine_friendly,
                         Ok(JsonVecString(sort(HashSetIter(uniq_areas, seed)))))

\* Variant: the pattern is the letter a, not one that matches every name.
list_all_areas_letter(n, seed) == list_areas(<<97>>, n, seed)

list_all_areas(n, seed) == list_areas(<<46, 42>>, n, seed)

\* ---- fuzzy_search ----

\* Text of the path segment <query>: hyphen and B.
QueryChars == {45, 66}

Queries == NonEmptySeqsUpTo(QueryChars, MaxQuery)

IsWordChar(c) == c \in 48..57 \/ c \in 65..90 \/ c = 95 \/ c \in 97..122

\* The closure preprocess: every character outside [a-zA-Z0-9_] becomes a
\* space, then to_ascii_lowercase.
preprocess(q) ==
    [i \in 1..Len(q) |->
        LET c == IF IsWordChar(q[i]) THEN q[i] ELSE 32
        IN  IF c \in 65..90 THEN c + 32 ELSE c]

\* Leftmost positions at which pattern occurs in choice as a subsequence.
RECURSIVE MatchPositions(_, _, _, _, _)
MatchPositions(choice, pattern, i, k, acc) ==
    IF k > Len(pattern) THEN [some |-> TRUE, pos |-> acc]
    ELSE IF i > Len(choice) THEN [some |-> FALSE, pos |-> <<>>]
    ELSE IF choice[i] = pattern[k]
    THEN MatchPositions(choice, pattern, i + 1, k + 1, Append(acc, i))
    ELSE MatchPositions(choice, pattern, i + 1, k, acc)

\* Score of one matched character: 16 for the match, a bonus at the head
\* of the text (8) or after a space (7), doubled for the first character
\* of the pattern, 4 when it follows the previous match directly, and a
\* gap penalty of 3 plus 1 per further skipped character otherwise.
CharScore(choice, pos, k) ==
    LET bonus == IF pos[k] = 1 THEN 8
                 ELSE IF choice[pos[k] - 1] = 32 THEN 7 ELSE 0
        gap == IF k = 1 THEN 0 ELSE pos[k] - pos[k - 1] - 1
    IN  16 + (IF k = 1 THEN 2 * bonus ELSE bonus)
           + (IF k > 1 /\ gap = 0 THEN 4 ELSE 0)
           - (IF gap > 0 THEN 3 + (gap - 1) ELSE 0)

RECURSIVE SumScore(_, _, _)
SumScore(choice, pos, k) ==
    IF k = 0 THEN 0 ELSE SumScore(choice, pos, k - 1) + CharScore(choice, pos, k)

\* SkimMatcherV2::fuzzy_match(choice, pattern): Some(0) for an empty
\* pattern, None unless the pattern is a subsequence of the choice, and
\* otherwise a score computed from the two texts alone.  The scoring table
\* of the crate is abridged to the terms above.
fuzzy_match(choice, pattern) ==
    LET m == MatchPositions(choice, pattern, 1, 1, <<>>)
    IN  IF pattern = <<>> THEN [some |-> TRUE, score |-> 0]
        ELSE IF ~m.some THEN [some |-> FALSE, score |-> 0]
        ELSE [some |-> TRUE, score |-> SumScore(choice, m.pos, Len(pattern))]

Area(area_name) ==
    [name |-> area_name, id |-> 0, schedule |-> 0, aliases |-> <<>>,
     province |-> "None", municipality |-> "None"]

SearchResult(score, result) == [score |-> score, result |-> result]

\* impl Ord for SearchResult: the score alone is compared.
SearchResultLess(x, y) == x.score < y.score

RECURSIVE InsertResult(_, _)
InsertResult(sorted, x) ==
    IF sorted = <<>> THEN <<x>>
    ELSE IF SearchResultLess(x, Head(sorted)) THEN <<x>> \o sorted
    ELSE <<Head(sorted)>> \o InsertResult(Tail(sorted), x)

\* matching_areas.sort(): a stable sort, equal elements keep their order.
RECURSIVE sort_results(_)
sort_results(v) ==
    IF v = <<>> THEN <<>>
    ELSE InsertResult(sort_results(SubSeq(v, 1, Len(v) - 1)), v[Len(v)])

\* Variant: the sorted vector is returned ascending.
reverse_omitted(v) == v

\* matching_areas.reverse()
reverse(v) == [i \in 1..Len(v) |-> v[Len(v) + 1 - i]]

\* Variant: the area names are taken from the rows without the set.
fuzzy_search_no_dedup(query0, n, seed) ==
    LET query == preprocess(query0)
        machine_friendly == get_machine_friendly(n)
    IN  IF machine_friendly.kind # "ok"
        THEN machine_friendly
        ELSE LET rows == machine_friendly.val
                 names == [i \in 1..Len(rows) |-> rows[i].area_name]
                 hits == SelectSeq(names, LAMBDA area_name :
                            fuzzy_match(preprocess(area_name), preprocess(query)).some)
                 matching_areas ==
                     [i \in 1..Len(hits) |->
                         SearchResult(
                             fuzzy_match(preprocess(hits[i]), preprocess(query)).score,
                             Area(hits[i]))]
             IN  Counted(machine_friendly,
                         Ok(JsonVecSearchResult(reverse(sort_results(matching_areas)))))

fuzzy_search(query0, n, seed) ==
    LET query == preprocess(query0)
        machine_friendly == get_machine_friendly(n)
    IN  IF machine_friendly.kind # "ok"
        THEN machine_friendly
        ELSE LET rows == machine_friendly.val
                 names == HashSetIter({rows[i].area_name : i \in 1..Len(rows)}, seed)
                 hits == SelectSeq(names, LAMBDA area_name :
                            fuzzy_match(preprocess(area_name), preprocess(query)).some)
                 matching_areas ==
                     [i \in 1..Len(hits) |->
                         SearchResult(
                             fuzzy_match(preprocess(hits[i]), preprocess(query)).score,
                             Area(hits[i]))]
             IN  Counted(machine_friendly,
                         Ok(JsonVecSearchResult(reverse(sort_results(matching_areas)))))

\* ---- schedules ----

\* Text of a time of day and of a date, as the digits written in the cell.
TimeText(shape, h, m) == [shape |-> shape, h |-> h, m |-> m]

DateText(shape, y, m, d) == [shape |-> shape, y |-> y, m |-> m, d |-> d]

\* NaiveTime::parse_from_str(text, "%H:%M")
NaiveTimeParse(text) ==
    IF text.shape = "HH:MM" /\ text.h \in 0..23 /\ text.m \in 0..59
    THEN [ok |-> TRUE, v |-> [hour |-> text.h, minute |-> text.m]]
    ELSE [ok |-> FALSE, v |-> [hour |-> 0, minute |-> 0]]

DaysInMonth(y, m) ==
    IF m = 2 THEN (IF y % 4 = 0 /\ (y % 100 # 0 \/ y % 400 = 0) THEN 29 ELSE 28)
    ELSE IF m \in {4, 6, 9, 11} THEN 30 ELSE 31

\* NaiveDate::parse_from_str(text, "%Y-%m-%d")
NaiveDateParse(text) ==
    IF text.shape = "YYYY-MM-DD" /\ text.m \in 1..12
       /\ text.d \in 1..DaysInMonth(text.y, text.m)
    THEN [ok |-> TRUE, v |-> [year |-> text.y, month |-> text.m, day |-> text.d]]
    ELSE [ok |-> FALSE, v |-> [year |-> 0, month |-> 0, day |-> 0]]

NoDate == [year |-> 0, month |-> 0, day |-> 0]

\* One record of a schedule CSV.  day is the number written in every
\* day column the header has (date_of_month, day_of_week,
\* day_of_20_day_cycle, day_of_cycle).
ScheduleRow(start_time, finsh_time, stage, day, period, start_of_cycle) ==
    [start_time |-> start_time, finsh_time |-> finsh_time, stage |-> stage,
     day |-> day, period_of_cycle |-> period, start_of_cycle |-> start_of_cycle]

T2200 == TimeText("HH:MM", 22, 0)

T0030 == TimeText("HH:MM", 0, 30)

D20230218 == DateText("YYYY-MM-DD", 2023, 2, 18)

\* Rows with days in and out of each range (0, 5, 8 and 32 in a cycle of
\* 20 days, 5 in a cycle of 3), an ordinary daytime row, and three rows with
\* one unreadable cell each (a stage that is no u8, a time without its
\* colon, the 30th of February).
ScheduleRows ==
    {ScheduleRow(T2200, T0030, 4, d, 20, D20230218) : d \in {0, 5, 8, 32}}
    \cup {ScheduleRow(T2200, T0030, 4, 5, 3, D20230218),
          ScheduleRow(TimeText("HH:MM", 8, 0), TimeText("HH:MM", 10, 30), 2, 5, 20, D20230218),
          ScheduleRow(T2200, T0030, 300, 5, 20, D20230218),
          ScheduleRow(TimeText("HHMM", 22, 0), T0030, 4, 5, 20, D20230218),
          ScheduleRow(T2200, T0030, 4, 5, 20, DateText("YYYY-MM-DD", 2023, 2, 30))}

BaseColumns == {"start_time", "finsh_time", "stage"}

DayColumns == {"date_of_month", "day_of_week", "day_of_20_day_cycle", "day_of_cycle"}

CycleColumns == {"period_of_cycle", "start_of_cycle"}

ColumnOrder ==
    <<"date_of_month", "day_of_week", "day_of_20_day_cycle", "day_of_cycle",
      "period_of_cycle", "start_of_cycle", "start_time", "finsh_time", "stage">>

\* Header rows: the base columns, any choice of day columns, and the cycle
\* columns when a cycle day column is there.
ScheduleHeaders ==
    {SelectSeq(ColumnOrder, LAMBDA c : c \in hs) :
        hs \in {cs \in SUBSET (BaseColumns \cup DayColumns \cup CycleColumns) :
                   /\ BaseColumns \subseteq cs
                   /\ IF cs \cap {"day_of_20_day_cycle", "day_of_cycle"} # {}
                      THEN CycleColumns \subseteq cs
                      ELSE CycleColumns \cap cs = {}}}

\* headers.iter().any(|h| h == column)
HasColumn(headers, column) == \E i \in 1..Len(headers) : headers[i] = column

\* serde finds every field of a struct among the columns.
HasColumns(headers, fields) == \A f \in fields : HasColumn(headers, f)

ScheduleFiles == [headers : ScheduleHeaders, rows : SeqsUpTo(ScheduleRows, MaxRows)]

ScheduleNets ==
    {Fetched("fail", 0, "fail", <<>>, <<>>),
     Fetched("ok", 200, "fail", <<>>, <<>>),
     Fetched("ok", 404, "ok", ErrorPage, <<>>)}
    \cup {Fetched("ok", 200, "ok", f.headers, f.rows) : f \in ScheduleFiles}

ScheduleNames == {<<97, 45, 98>>}

RecurringOutage(start_time, finsh_time, stage, recurrence, day1) ==
    [start_time |-> start_time, finsh_time |-> finsh_time, stage |-> stage,
     recurrence |-> recurrence, day1_of_recurrence |-> day1]

Recurrence(kind, offset, period_days) ==
    [kind |-> kind, offset |-> offset, period_days |-> period_days]

\* impl From<RawPeriodicShedding> for RecurringOutage
FromRawPeriodicShedding(raw) ==
    IF ~(raw.day_of_cycle <= raw.period_of_cycle)
    THEN Panic(<<"Day of the cycle must be <= period of the cycle",
                 raw.day_of_cycle, raw.period_of_cycle>>)
    ELSE IF ~NaiveDateParse(raw.start_of_cycle).ok THEN UnwrapPanic("chrono::ParseError")
    ELSE IF ~NaiveTimeParse(raw.start_time).ok THEN UnwrapPanic("chrono::ParseError")
    ELSE IF ~NaiveTimeParse(raw.finsh_time).ok THEN UnwrapPanic("chrono::ParseError")
    ELSE Ok(RecurringOutage(
                NaiveTimeParse(raw.start_time).v, NaiveTimeParse(raw.finsh_time).v,
                raw.stage,
                Recurrence("Periodic", NaiveDateParse(raw.start_of_cycle).v,
                           raw.period_of_cycle),
                raw.day_of_cycle))

\* Variant: a finish time earlier than the start time is taken for a slip
\* and the two are swapped.
FromRawWeeklyShedding_swapping(raw) ==
    IF ~(0 < raw.day_of_week /\ raw.day_of_week < 8)
    THEN Panic(<<"Day of the week must be one of 1, 2, 3, 4, 5, 6, 7">>)
    ELSE IF ~NaiveTimeParse(raw.start_time).ok THEN UnwrapPanic("chrono::ParseError")
    ELSE IF ~NaiveTimeParse(raw.finsh_time).ok THEN UnwrapPanic("chrono::ParseError")
    ELSE LET start == NaiveTimeParse(raw.start_time).v
             finsh == NaiveTimeParse(raw.finsh_time).v
             earlier == finsh.hour * 60 + finsh.minute < start.hour * 60 + start.minute
         IN  Ok(RecurringOutage(
                    IF earlier THEN finsh ELSE start, IF earlier THEN start ELSE finsh,
                    raw.stage, Recurrence("Weekly", NoDate, 0), raw.day_of_week))

\* impl From<RawWeeklyShedding> for RecurringOutage
FromRawWeeklyShedding(raw) ==
    IF ~(0 < raw.day_of_week /\ raw.day_of_week < 8)
    THEN Panic(<<"Day of the week must be one of 1, 2, 3, 4, 5, 6, 7">>)
    ELSE IF ~NaiveTimeParse(raw.start_time).ok THEN UnwrapPanic("chrono::ParseError")
    ELSE IF ~NaiveTimeParse(raw.finsh_time).ok THEN UnwrapPanic("chrono::ParseError")
    ELSE Ok(RecurringOutage(
                NaiveTimeParse(raw.start_time).v, NaiveTimeParse(raw.finsh_time).v,
                raw.stage, Recurrence("Weekly", NoDate, 0), raw.day_of_week))

\* impl From<RawMonthlyShedding> for RecurringOutage
FromRawMonthlyShedding(raw) ==
    IF ~(0 < raw.date_of_month /\ raw.date_of_month <= 31)
    THEN Panic(<<"Date of month must be in the range (0, 31]">>)
    ELSE IF ~NaiveTimeParse(raw.start_time).ok THEN UnwrapPanic("chrono::ParseError")
    ELSE IF ~NaiveTimeParse(raw.finsh_time).ok THEN UnwrapPanic("chrono::ParseError")
    ELSE Ok(RecurringOutage(
                NaiveTimeParse(raw.start_time).v, NaiveTimeParse(raw.finsh_time).v,
                raw.stage, Recurrence("Monthly", NoDate, 0), raw.date_of_month))

\* deserialize::<RawMonthlyShedding>() of one record, unwrapped, then into():
\* every field of the struct must be a column of the file.
MonthlyRow(headers, row) ==
    IF HasColumns(headers, {"start_time", "finsh_time", "stage", "date_of_month"})
       /\ IsU8(row.stage) /\ IsU8(row.day)
    THEN FromRawMonthlyShedding(
             [start_time |-> row.start_time, finsh_time |-> row.finsh_time,
              stage |-> row.stage, date_of_month |-> row.day])
    ELSE UnwrapPanic("csv::Error")

WeeklyRow(headers, row) ==
    IF HasColumns(headers, {"start_time", "finsh_time", "stage", "day_of_week"})
       /\ IsU8(row.stage) /\ IsU8(row.day)
    THEN FromRawWeeklyShedding(
             [start_time |-> row.start_time, finsh_time |-> row.finsh_time,
              stage |-> row.stage, day_of_week |-> row.day])
    ELSE UnwrapPanic("csv::Error")

PeriodicRow(headers, row) ==
    IF HasColumns(headers, {"start_time", "finsh_time", "stage", "day_of_cycle",
                            "period_of_cycle", "start_of_cycle"})
       /\ IsU8(row.stage) /\ IsU8(row.day) /\ IsU8(row.period_of_cycle)
    THEN FromRawPeriodicShedding(
             [start_time |-> row.start_time, finsh_time |-> row.finsh_time,
              stage |-> row.stage, day_of_cycle |-> row.day,
              period_of_cycle |-> row.period_of_cycle,
              start_of_cycle |-> row.start_of_cycle])
    ELSE UnwrapPanic("csv::Error")

RecurringSchedule(outs) ==
    [id |-> 0, outages |-> outs, source |-> <<>>, info |-> <<>>,
     last_updated |-> "None", valid_from |-> "None", valid_until |-> "None"]

\* Ok(Json(RecurringSchedule {..})) around the collected outages.
Wrapped(r) ==
    IF r.kind = "ok"
    THEN [r EXCEPT !.val = JsonRecurringSchedule(RecurringSchedule(@))]
    ELSE r

\* Variant: a header without marker is read as a periodic schedule.
schedules_default_periodic(area_name, n) ==
    Fetching(
    IF n.transport # "ok"
    THEN Err(<<"Failed to get CSV file defining schedules for", area_name>>)
    ELSE IF n.status \notin 200..299
    THEN Err(<<"Failed to get CSV file from GitHub", n.status>>)
    ELSE IF n.text # "ok"
    THEN Err(<<"Failed to get text of the CSV file defining schedules for", area_name>>)
    ELSE LET headers == n.headers
             rows == n.body
             monthly(row) == MonthlyRow(headers, row)
             weekly(row) == WeeklyRow(headers, row)
             periodic(row) == PeriodicRow(headers, row)
         IN  IF HasColumn(headers, "date_of_month")
             THEN Wrapped(collect(rows, monthly))
             ELSE IF HasColumn(headers, "day_of_week")
             THEN Wrapped(collect(rows, weekly))
             ELSE Wrapped(collect(rows, periodic)))

\* Variant: the day_of_week branch is tried before the date_of_month one.
schedules_weekly_first(area_name, n) ==
    Fetching(
    IF n.transport # "ok"
    THEN Err(<<"Failed to get CSV file defining schedules for", area_name>>)
    ELSE IF n.status \notin 200..299
    THEN Err(<<"Failed to get CSV file from GitHub", n.status>>)
    ELSE IF n.text # "ok"
    THEN Err(<<"Failed to get text of the CSV file defining schedules for", area_name>>)
    ELSE LET headers == n.headers
             rows == n.body
             monthly(row) == MonthlyRow(headers, row)
             weekly(row) == WeeklyRow(headers, row)
             periodic(row) == PeriodicRow(headers, row)
         IN  IF HasColumn(headers, "day_of_week")
             THEN Wrapped(collect(rows, weekly))
             ELSE IF HasColumn(headers, "date_of_month")
             THEN Wrapped(collect(rows, monthly))
             ELSE IF HasColumn(headers, "day_of_20_day_cycle")
             THEN Wrapped(collect(rows, periodic))
             ELSE Err(<<"Couldn't parse headers", headers>>))

\* reader.headers() cannot fail here: the reader is over the bytes of a
\* String, which are UTF-8.
schedules(area_name, n) ==
    Fetching(
    IF n.transport # "ok"
    THEN Err(<<"Failed to get CSV file defining schedules for", area_name>>)
    ELSE IF n.status \notin 200..299
    THEN Err(<<"Failed to get CSV file from GitHub", n.status>>)
    ELSE IF n.text # "ok"
    THEN Err(<<"Failed to get text of the CSV file defining schedules for", area_name>>)
    ELSE LET headers == n.headers
             rows == n.body
             monthly(row) == MonthlyRow(headers, row)
             weekly(row) == WeeklyRow(headers, row)
             periodic(row) == PeriodicRow(headers, row)
         IN  IF HasColumn(headers, "date_of_month")
             THEN Wrapped(collect(rows, monthly))
             ELSE IF HasColumn(headers, "day_of_week")
             THEN Wrapped(collect(rows, weekly))
             ELSE IF HasColumn(headers, "day_of_20_day_cycle")
             THEN Wrapped(collect(rows, periodic))
             ELSE Err(<<"Couldn't parse headers", headers>>))

\* ---- the server: one request at a time, nothing kept between requests ----

VARIABLES pc, req, net, resp, prev, inflight, text_data

vars == <<pc, req, net, resp, prev, inflight, text_data>>

conc == <<inflight, text_data>>

seq == <<pc, req, net, resp, prev>>

\* Texts of the path segment <regex>: a, A, aa, a*, (a)*b and a.b compile;
\* an unclosed bracket, a star with nothing before it, an unopened bracket
\* and a star that opens a group do not.
Patterns ==
    {<<97>>, <<65>>, <<97, 97>>, <<97, 42>>, <<40, 97, 41, 42, 98>>,
     <<97, 46, 98>>, <<40>>, <<42>>, <<97, 41>>, <<40, 42>>}

\* ---- the two namespaces ----

\* mod latest: every handler awaits the handler of the same name in
\* super::v0_0_1 and returns what it returns.
latest_fuzzy_search(query, n, seed) == fuzzy_search(query, n, seed)

\* Variant: forwards to an implementation that differs from the pinned one.
latest_outages_lenient(area_name, n) == outages_empty_ok(area_name, n)

latest_outages(area_name, n) == outages(area_name, n)

latest_schedules(area_name, n) == schedules(area_name, n)

latest_list_all_areas(n, seed) == list_all_areas(n, seed)

latest_list_areas(regex, n, seed) == list_areas(regex, n, seed)

\* latest::routes() and v0_0_1::routes(): the handlers each module hands
\* to the server.
latest_routes ==
    {"fuzzy_search", "list_all_areas", "list_areas", "outages", "schedules"}

v0_0_1_routes ==
    {"fuzzy_search", "list_all_areas", "list_areas", "outages", "schedules"}

Namespaces == {"latest", "v0.0.1"}

\* The server that the tests build: each module's routes() under its prefix.
build_rocket ==
    [ns \in Namespaces |-> IF ns = "latest" THEN latest_routes ELSE v0_0_1_routes]

NoReq == [ns |-> "none", op |-> "none", param |-> <<>>]

NoNet == Fetched("none", 0, "none", <<>>, <<>>)

Request(ns, op, param) == [ns |-> ns, op |-> op, param |-> param]

\* The route table: the handler a request is dispatched to.
Handle(r, n, seed) ==
    IF r.ns = "latest"
    THEN CASE r.op = "outages" -> latest_outages(r.param, n)
           [] r.op = "list_areas" -> latest_list_areas(r.param, n, seed)
           [] r.op = "list_all_areas" -> latest_list_all_areas(n, seed)
           [] r.op = "fuzzy_search" -> latest_fuzzy_search(r.param, n, seed)
           [] r.op = "schedules" -> latest_schedules(r.param, n)
    ELSE CASE r.op = "outages" -> outages(r.param, n)
           [] r.op = "list_areas" -> list_areas(r.param, n, seed)
           [] r.op = "list_all_areas" -> list_all_areas(n, seed)
           [] r.op = "fuzzy_search" -> fuzzy_search(r.param, n, seed)
           [] r.op = "schedules" -> schedules(r.param, n)

\* The iteration orders a request can meet in the HashSet it builds; the
\* handlers that build none have the one empty order.
SeedsOf(r, n) ==
    IF r.op \in {"outages", "schedules"} THEN {<<>>} ELSE Seeds(n)

\* The handler futures that the runtime polls at the same time.
Tasks == 1..MaxTasks

\* Variant: text_data is one static that all the futures share.
FutureOf_static(t) == 1

\* text_data is a local of the future of the task: each future has its own.
FutureOf(t) == t

\* A task that holds no request.
Free == [pc |-> "free", req |-> NoReq, wire |-> NoNet, resp |-> NoResp]

Init ==
    /\ pc = "idle"
    /\ req = NoReq
    /\ net = NoNet
    /\ resp = NoResp
    /\ prev = NoResp
    /\ inflight = [t \in Tasks |-> Free]
    /\ text_data = [t \in Tasks |-> NoNet]

\* A handler runs from the request to its result; n is what its fetch got.
\* A request is taken when the server is idle and its route is mounted.
Serve(r, n) ==
    /\ r.op \in build_rocket[r.ns]
    /\ \E seed \in SeedsOf(r, n) :
           /\ pc' = "done"
           /\ req' = r
           /\ net' = n
           /\ resp' = Handle(r, n, seed)
           /\ prev' = NoResp
           /\ UNCHANGED conc

Outages(ns, area_name) ==
    /\ pc = "idle"
    /\ \E n \in FeedNets : Serve(Request(ns, "outages", area_name), n)

ListAreas(ns, regex) ==
    /\ pc = "idle"
    /\ \E n \in FeedNets : Serve(Request(ns, "list_areas", regex), n)

ListAllAreas(ns) ==
    /\ pc = "idle"
    /\ \E n \in FeedNets : Serve(Request(ns, "list_all_areas", <<>>), n)

FuzzySearch(ns, query) ==
    /\ pc = "idle"
    /\ \E n \in FeedNets : Serve(Request(ns, "fuzzy_search", query), n)

Schedules(ns, area_name) ==
    /\ pc = "idle"
    /\ \E n \in ScheduleNets : Serve(Request(ns, "schedules", area_name), n)

\* The same request arrives once more while the upstream still serves the
\* same data; prev keeps the earlier result.
SameRequestAgain ==
    /\ pc = "done"
    /\ prev = NoResp
    /\ \E seed \in SeedsOf(req, net) : resp' = Handle(req, net, seed)
    /\ prev' = resp
    /\ UNCHANGED <<pc, req, net>>
    /\ UNCHANGED conc

\* After a request on the outage feed, the list of all areas is asked for
\* in the same namespace while the upstream still serves the same data;
\* prev keeps the result of the first request and resp holds the list.
ThenListAllAreas ==
    /\ pc = "done"
    /\ prev = NoResp
    /\ req.op \in {"outages", "list_areas"}
    /\ \E seed \in Seeds(net) :
           resp' = Handle(Request(req.ns, "list_all_areas", <<>>), net, seed)
    /\ prev' = resp
    /\ pc' = "listed"
    /\ UNCHANGED <<req, net>>
    /\ UNCHANGED conc

\* The response is serialised and everything built for the request dropped.
Respond ==
    /\ pc \in {"done", "listed"}
    /\ pc' = "idle"
    /\ req' = NoReq
    /\ net' = NoNet
    /\ resp' = NoResp
    /\ prev' = NoResp
    /\ UNCHANGED conc

Next ==
    \/ \E ns \in Namespaces : \E area_name \in RequestNames : Outages(ns, area_name)
    \/ \E ns \in Namespaces : \E regex \in Patterns : ListAreas(ns, regex)
    \/ \E ns \in Namespaces : ListAllAreas(ns)
    \/ \E ns \in Namespaces : \E query \in Queries : FuzzySearch(ns, query)
    \/ \E ns \in Namespaces : \E area_name \in ScheduleNames : Schedules(ns, area_name)
    \/ SameRequestAgain
    \/ ThenListAllAreas
    \/ Respond

Spec == Init /\ [][Next]_vars

\* ---- several requests in flight: the runtime polls the handler futures
\* in any order, each runs up to its next await ----

\* Requests and fetch outcomes of the tasks in flight.
ConcRequests ==
    {Request("v0.0.1", "fuzzy_search", <<97>>),
     Request("latest", "outages", <<97, 98>>),
     Request("v0.0.1", "list_all_areas", <<>>)}

ConcNets ==
    {Fetched("fail", 0, "fail", <<>>, <<>>),
     Fetched("ok", 200, "ok", FeedHeaders, <<FeedRow(<<97, 98>>, 2)>>),
     Fetched("ok", 200, "ok", FeedHeaders,
             <<FeedRow(<<97, 45, 98>>, 4), FeedRow(<<65, 45, 98>>, 4)>>)}

\* The router starts the handler of a request on a free task; the handler
\* runs up to the await of its GET.
Accept(t) ==
    /\ inflight[t].pc = "free"
    /\ \E r \in ConcRequests :
           /\ r.op \in build_rocket[r.ns]
           /\ inflight' = [inflight EXCEPT ![t] = [@ EXCEPT !.pc = "fetching", !.req = r]]
    /\ UNCHANGED text_data
    /\ UNCHANGED seq

\* The awaits of get_machine_friendly complete: the upstream answers the
\* GET of task t with n, which the future binds to its text_data.
Fetch(t) ==
    /\ inflight[t].pc = "fetching"
    /\ \E n \in ConcNets :
           /\ inflight' = [inflight EXCEPT ![t] = [@ EXCEPT !.pc = "fetched", !.wire = n]]
           /\ text_data' = [text_data EXCEPT ![FutureOf(t)] = n]
    /\ UNCHANGED seq

\* The rest of the handler runs without another await, from the text_data
\* of its future to the result.
Finish(t) ==
    /\ inflight[t].pc = "fetched"
    /\ \E seed \in SeedsOf(inflight[t].req, text_data[FutureOf(t)]) :
           inflight' = [inflight EXCEPT ![t] =
               [@ EXCEPT !.pc = "done",
                         !.resp = Handle(inflight[t].req, text_data[FutureOf(t)], seed)]]
    /\ UNCHANGED text_data
    /\ UNCHANGED seq

\* The response of task t is sent and its future dropped.
Send(t) ==
    /\ inflight[t].pc = "done"
    /\ inflight' = [inflight EXCEPT ![t] = Free]
    /\ text_data' = [text_data EXCEPT ![FutureOf(t)] = NoNet]
    /\ UNCHANGED seq

NextConc ==
    \/ \E t \in Tasks : Accept(t)
    \/ \E t \in Tasks : Fetch(t)
    \/ \E t \in Tasks : Finish(t)
    \/ \E t \in Tasks : Send(t)

SpecConc == Init /\ [][NextConc]_vars

\* ---- properties ----

Served(op) == pc = "done" /\ req.op = op

\* The feed arrived and every record of it decodes.
FeedDelivered ==
    /\ net.transport = "ok"
    /\ net.text = "ok"
    /\ \A i \in 1..Len(net.body) : IsU8(net.body[i].stage)

FeedNames == {net.body[i].area_name : i \in 1..Len(net.body)}

\* Positions of the feed rows of the requested area, and the k-th of them.
Matching == {i \in 1..Len(net.body) : net.body[i].area_name = req.param}

NthMatching(k) ==
    CHOOSE i \in Matching : Cardinality({j \in Matching : j < i}) = k - 1

Elements(v) == {v[i] : i \in 1..Len(v)}

\* a comes before b in byte-wise lexicographic order.
LexBefore(a, b) ==
    \E k \in 1..(Len(b)) :
        /\ k <= Len(a) + 1
        /\ \A i \in 1..(k - 1) : a[i] = b[i]
        /\ (k = Len(a) + 1 \/ a[k] < b[k])

\* C1: outages for an area name that occurs in the delivered feed succeeds
\* with a non-empty sequence holding exactly the feed rows whose area_name
\* is equal to the requested name, in feed order.
C1_OutagesOfFeedArea ==
    (Served("outages") /\ FeedDelivered /\ Matching # {}) =>
        /\ resp.kind = "ok"
        /\ Len(resp.val.power_outages) > 0
        /\ Len(resp.val.power_outages) = Cardinality(Matching)
        /\ \A k \in 1..Len(resp.val.power_outages) :
               resp.val.power_outages[k]
                   = [area_name |-> net.body[NthMatching(k)].area_name,
                      stage |-> net.body[NthMatching(k)].stage]

C1_Witness ==
    /\ Served("outages")
    /\ FeedDelivered
    /\ Len(net.body) = 3
    /\ resp.kind = "ok"
    /\ Len(resp.val.power_outages) = 2
    /\ resp.val.power_outages[1].stage # resp.val.power_outages[2].stage

\* C2: when the feed is delivered and no row of it has the requested
\* area_name, outages returns the error naming the requested area, never a
\* success with an empty sequence.
C2_UnknownAreaIsError ==
    (Served("outages") /\ FeedDelivered /\ Matching = {}) =>
        /\ resp.kind = "err"
        /\ resp.msg = <<"No areas found that match", req.param>>

C2_Witness ==
    /\ Served("outages")
    /\ FeedDelivered
    /\ Len(net.body) = 3
    /\ Matching = {}
    /\ resp.kind = "err"

\* C3: list_all_areas on a delivered feed succeeds with the distinct
\* area_name values of the feed, each once, in ascending lexicographic
\* order; the list is non-empty when the feed has a row.
C3_ListAllAreas ==
    (Served("list_all_areas") /\ FeedDelivered) =>
        /\ resp.kind = "ok"
        /\ Elements(resp.val.areas) = FeedNames
        /\ \A i \in 1..(Len(resp.val.areas) - 1) :
               LexBefore(resp.val.areas[i], resp.val.areas[i + 1])
        /\ (net.body # <<>> => resp.val.areas # <<>>)

C3_Witness ==
    /\ Served("list_all_areas")
    /\ FeedDelivered
    /\ Len(net.body) = 3
    /\ resp.kind = "ok"
    /\ Len(resp.val.areas) = 2

IsRegexError == resp.kind = "err" /\ resp.msg = <<"Error parsing as regex", req.param>>

\* C4 as stated: list_areas with a pattern that does not compile fails
\* with the regex error whatever the state of the upstream feed.
C4_RegexErrorWhateverTheFeed ==
    (Served("list_areas") /\ ~RegexNew(req.param).ok) => IsRegexError

\* C4, amended: list_areas with a pattern that does not compile never
\* returns a success, whatever the state of the upstream feed, and fails
\* with the regex error whenever the feed was delivered.
C4_InvalidPatternNeverSucceeds ==
    (Served("list_areas") /\ ~RegexNew(req.param).ok) =>
        /\ resp.kind # "ok"
        /\ (FeedDelivered => IsRegexError)

C4_Witness ==
    /\ Served("list_areas")
    /\ ~RegexNew(req.param).ok
    /\ FeedDelivered
    /\ Len(net.body) = 3
    /\ IsRegexError

\* C5: the results of a successful fuzzy_search are in non-increasing order
\* of score.
C5_DescendingScores ==
    (Served("fuzzy_search") /\ resp.kind = "ok") =>
        \A i \in 1..(Len(resp.val.results) - 1) :
            resp.val.results[i].score >= resp.val.results[i + 1].score

C5_Witness ==
    /\ Served("fuzzy_search")
    /\ resp.kind = "ok"
    /\ Len(resp.val.results) = 3
    /\ resp.val.results[1].score > resp.val.results[3].score

\* p occurs in c as a subsequence.
Subsequence(p, c) ==
    \E f \in [1..Len(p) -> 1..Len(c)] :
        /\ \A k \in 1..Len(p) : c[f[k]] = p[k]
        /\ \A k \in 1..(Len(p) - 1) : f[k] < f[k + 1]

\* C6: a successful fuzzy_search returns one result for each distinct feed
\* area_name whose normalized form matches the normalized query and nothing
\* else, no area twice, each Area carrying the name as the feed has it and
\* default values in its other fields.
C6_OneResultPerMatchingArea ==
    (Served("fuzzy_search") /\ resp.kind = "ok") =>
        /\ \A i, j \in 1..Len(resp.val.results) :
               resp.val.results[i].result.name = resp.val.results[j].result.name => i = j
        /\ {resp.val.results[i].result.name : i \in 1..Len(resp.val.results)}
               = {a \in FeedNames : Subsequence(preprocess(req.param), preprocess(a))}
        /\ \A i \in 1..Len(resp.val.results) :
               resp.val.results[i].result
                   = [name |-> resp.val.results[i].result.name, id |-> 0, schedule |-> 0,
                      aliases |-> <<>>, province |-> "None", municipality |-> "None"]

C6_Witness ==
    /\ Served("fuzzy_search")
    /\ resp.kind = "ok"
    /\ Len(net.body) = 3
    /\ Cardinality(FeedNames) = 2
    /\ Len(resp.val.results) = 1
    /\ resp.val.results[1].result.name = <<65, 45, 98>>

\* C7: two calls of an operation with the same parameters against the same
\* upstream data produce the same result, the order of its elements
\* included.
C7_SameRequestSameResult ==
    (pc = "done" /\ prev.kind # "none") => resp = prev

Markers == {"date_of_month", "day_of_week", "day_of_20_day_cycle"}

ScheduleDelivered == net.transport = "ok" /\ net.status = 200 /\ net.text = "ok"

\* The marker columns of the fetched header row.
SeenMarkers == Elements(net.headers) \cap Markers

KindOfMarker(h) ==
    CASE h = "date_of_month" -> "Monthly"
      [] h = "day_of_week" -> "Weekly"
      [] h = "day_of_20_day_cycle" -> "Periodic"

\* Every cell of the row can be read and its day is in the range of the
\* schedule kind h announces.
RowWellFormed(row, h) ==
    /\ IsU8(row.stage)
    /\ NaiveTimeParse(row.start_time).ok
    /\ NaiveTimeParse(row.finsh_time).ok
    /\ (h = "date_of_month" => row.day \in 1..31)
    /\ (h = "day_of_week" => row.day \in 1..7)
    /\ (h = "day_of_20_day_cycle" =>
           /\ IsU8(row.period_of_cycle)
           /\ row.day \in 1..row.period_of_cycle
           /\ NaiveDateParse(row.start_of_cycle).ok)

\* C8: a well-formed schedule file whose header carries exactly one marker
\* column yields a RecurringSchedule whose outages all have the recurrence
\* kind of that marker.
C8_MarkerSelectsKind ==
    \A h \in Markers :
        (/\ Served("schedules")
         /\ ScheduleDelivered
         /\ SeenMarkers = {h}
         /\ \A i \in 1..Len(net.body) : RowWellFormed(net.body[i], h))
        => /\ resp.kind = "ok"
           /\ Len(resp.val.schedule.outages) = Len(net.body)
           /\ \A i \in 1..Len(resp.val.schedule.outages) :
                  resp.val.schedule.outages[i].recurrence.kind = KindOfMarker(h)

\* C9: a schedule file whose header has none of the marker columns makes
\* schedules fail with the error naming the headers seen; no record is
\* decoded and no schedule returned.
C9_NoMarkerIsError ==
    (Served("schedules") /\ ScheduleDelivered /\ SeenMarkers = {}) =>
        /\ resp.kind = "err"
        /\ resp.msg = <<"Couldn't parse headers", net.headers>>
        /\ resp.decoded = 0

C9_Witness ==
    /\ Served("schedules")
    /\ ScheduleDelivered
    /\ SeenMarkers = {}
    /\ HasColumn(net.headers, "day_of_cycle")
    /\ Len(net.body) = 2
    /\ resp.kind = "err"

\* The first record is read under the schema of marker h, every cell of it
\* can be read, and its day is outside the range of that schema.
FirstRowOutOfRange ==
    /\ net.body # <<>>
    /\ LET row == net.body[1]
           hs == Elements(net.headers)
       IN  /\ IsU8(row.stage)
           /\ NaiveTimeParse(row.start_time).ok
           /\ NaiveTimeParse(row.finsh_time).ok
           /\ \/ "date_of_month" \in hs /\ row.day \notin 1..31
              \/ hs \cap Markers = {"day_of_week"} /\ row.day \notin 1..7
              \/ /\ hs \cap Markers = {"day_of_20_day_cycle"}
                 /\ "day_of_cycle" \in hs
                 /\ row.day > row.period_of_cycle

\* C10: normalizing a raw schedule row that violates its range invariant
\* yields an error result returned to the caller.
C10_RangeViolationIsErrorResult ==
    (Served("schedules") /\ ScheduleDelivered /\ FirstRowOutOfRange) =>
        resp.kind = "err"

\* The outages of the returned schedule.
ReturnedOutages == resp.val.schedule.outages

\* C11: every RecurringOutage of a returned schedule has
\* day1_of_recurrence >= 1, whatever the raw variant it was made from; no
\* Periodic outage with day 0 is produced.
C11_DaysCountFromOne ==
    (Served("schedules") /\ resp.kind = "ok") =>
        \A i \in 1..Len(ReturnedOutages) : ReturnedOutages[i].day1_of_recurrence >= 1

\* The schema the header selects is the weekly one.
WeeklySelected ==
    /\ ScheduleDelivered
    /\ ~HasColumn(net.headers, "date_of_month")
    /\ HasColumn(net.headers, "day_of_week")

\* The time of day written in a cell.
ClockOf(text) == [hour |-> text.h, minute |-> text.m]

\* C12: every valid Weekly row becomes a RecurringOutage of recurrence
\* Weekly with day1_of_recurrence equal to day_of_week, the same stage and
\* the start and finish times written in the row; a finish time earlier than
\* the start time is kept as it is.
C12_WeeklyRowPreserved ==
    (/\ Served("schedules")
     /\ WeeklySelected
     /\ \A i \in 1..Len(net.body) : RowWellFormed(net.body[i], "day_of_week"))
    => /\ resp.kind = "ok"
       /\ Len(ReturnedOutages) = Len(net.body)
       /\ \A i \in 1..Len(net.body) :
              /\ ReturnedOutages[i].recurrence.kind = "Weekly"
              /\ ReturnedOutages[i].day1_of_recurrence = net.body[i].day
              /\ ReturnedOutages[i].stage = net.body[i].stage
              /\ ReturnedOutages[i].start_time = ClockOf(net.body[i].start_time)
              /\ ReturnedOutages[i].finsh_time = ClockOf(net.body[i].finsh_time)

C12_Witness ==
    /\ Served("schedules")
    /\ WeeklySelected
    /\ resp.kind = "ok"
    /\ Len(net.body) = 2
    /\ net.body[1].start_time = T2200
    /\ net.body[1].finsh_time = T0030
    /\ ReturnedOutages[1].start_time = [hour |-> 22, minute |-> 0]
    /\ ReturnedOutages[1].finsh_time = [hour |-> 0, minute |-> 30]
    /\ ReturnedOutages[2].start_time = [hour |-> 8, minute |-> 0]

\* The precedence of the header branches: the marker that decides.
DecidingMarker ==
    IF "date_of_month" \in SeenMarkers THEN "date_of_month"
    ELSE IF "day_of_week" \in SeenMarkers THEN "day_of_week"
    ELSE "day_of_20_day_cycle"

\* C20: when the header has more than one marker column, a returned
\* schedule has one outage per data row, in row order, all of the recurrence
\* kind of the first marker in the precedence date_of_month, day_of_week,
\* day_of_20_day_cycle.
C20_MarkerPrecedence ==
    (/\ Served("schedules")
     /\ ScheduleDelivered
     /\ Cardinality(SeenMarkers) > 1
     /\ resp.kind = "ok")
    => /\ Len(ReturnedOutages) = Len(net.body)
       /\ \A i \in 1..Len(net.body) :
              /\ ReturnedOutages[i].recurrence.kind = KindOfMarker(DecidingMarker)
              /\ ReturnedOutages[i].day1_of_recurrence = net.body[i].day
              /\ ReturnedOutages[i].stage = net.body[i].stage

C20_Witness ==
    /\ Served("schedules")
    /\ ScheduleDelivered
    /\ SeenMarkers = Markers
    /\ resp.kind = "ok"
    /\ Len(net.body) = 2
    /\ net.body[1].stage # net.body[2].stage
    /\ net.body[1].day # net.body[2].day
    /\ ReturnedOutages[1].recurrence.kind = "Monthly"

\* The upstream did not answer the GET with a readable success response.
UpstreamFailed ==
    net.transport # "ok" \/ net.status \notin 200..299 \/ net.text # "ok"

FetchErrors ==
    {"Failed to get machine_friendly.csv that defines the outages",
     "Failed to get text of machine_friendly.csv",
     "Failed to get CSV file defining schedules for",
     "Failed to get CSV file from GitHub",
     "Failed to get text of the CSV file defining schedules for"}

IsFetchError == resp.kind = "err" /\ resp.msg # <<>> /\ resp.msg[1] \in FetchErrors

\* C14: when the transport fails, the status is not a success or the body
\* cannot be read, the request for the outage feed and the request for a
\* schedule both end with a fetch error and no record is decoded.
C14_UpstreamFailureIsFetchError ==
    (pc = "done" /\ UpstreamFailed) => (IsFetchError /\ resp.decoded = 0)

\* C15: every request ends with a success holding the complete result or
\* with an error carrying a message, also for malformed rows, unreadable
\* times and dates and range violations.
C15_SuccessOrErrorResponse ==
    pc = "done" =>
        \/ resp.kind = "ok"
        \/ resp.kind = "err" /\ resp.msg # <<>>

\* The list of all areas was asked for after a request of kind op, against
\* the same upstream data.
ListedAfter(op) == pc = "listed" /\ req.op = op

\* C18: against the same delivered feed, outages for a name succeeds if and
\* only if the name is in the list that list_all_areas returns.
C18_OutagesIffListed ==
    (ListedAfter("outages") /\ FeedDelivered) =>
        /\ resp.kind = "ok"
        /\ (prev.kind = "ok" <=> req.param \in Elements(resp.val.areas))

C18_Witness ==
    /\ ListedAfter("outages")
    /\ FeedDelivered
    /\ prev.kind = "ok"
    /\ Len(resp.val.areas) = 2
    /\ req.param = resp.val.areas[2]

\* C19: list_areas with a pattern that compiles succeeds with exactly the
\* feed names the pattern matches, each once and in ascending order, a
\* subset of the list of all areas; the list is empty, not an error, when
\* nothing matches.
C19_MatchingAreasSorted ==
    (ListedAfter("list_areas") /\ FeedDelivered /\ RegexNew(req.param).ok) =>
        /\ prev.kind = "ok"
        /\ resp.kind = "ok"
        /\ Elements(prev.val.areas) \subseteq Elements(resp.val.areas)
        /\ Elements(prev.val.areas)
               = {a \in FeedNames : is_match(RegexNew(req.param), a)}
        /\ \A i \in 1..(Len(prev.val.areas) - 1) :
               LexBefore(prev.val.areas[i], prev.val.areas[i + 1])

C19_Witness ==
    /\ ListedAfter("list_areas")
    /\ FeedDelivered
    /\ RegexNew(req.param).ok
    /\ Len(net.body) = 3
    /\ prev.kind = "ok"
    /\ Len(prev.val.areas) = 2
    /\ Len(resp.val.areas) = 3

\* C16: every request makes exactly one call of reqwest::get, whether the
\* call succeeds or fails (list_all_areas makes its one call through
\* list_areas), and between requests nothing fetched is held.
C16_OneFetchNothingKept ==
    /\ pc \in {"done", "listed"} => resp.fetches = 1
    /\ pc = "idle" => (net = NoNet /\ resp = NoResp /\ prev = NoResp)

C16_Witness ==
    /\ Served("list_all_areas")
    /\ net.transport = "fail"
    /\ IsFetchError
    /\ resp.fetches = 1

\* The namespace that is not ns.
OtherNamespace(ns) == IF ns = "latest" THEN "v0.0.1" ELSE "latest"

C17_IndependentRequests ==
    \A t \in Tasks :
        /\ inflight[t].pc = "fetched" => text_data[FutureOf(t)] = inflight[t].wire
        /\ inflight[t].pc = "done" =>
               inflight[t].resp \in
                   {Handle(inflight[t].req, inflight[t].wire, seed) :
                        seed \in SeedsOf(inflight[t].req, inflight[t].wire)}

C17_Witness ==
    /\ inflight[1].pc = "done"
    /\ inflight[2].pc = "done"
    /\ inflight[1].req.op = "fuzzy_search"
    /\ inflight[2].req.op = "fuzzy_search"
    /\ inflight[1].resp.kind = "ok"
    /\ inflight[2].resp.kind = "err"

====
